---- MODULE Spec2Model ----
(***************************************************************************)
(* Model of the ESP32 rock/paper/scissors camera project:                  *)
(*   image_processing.py  the fixed-geometry BMP transforms                *)
(*   cnn-server.py        the authenticated frame/prediction server        *)
(*   client.py, client-cnn.py   the frame-receiving clients                *)
(* Byte buffers (bytes, bytearray, memoryview) are sequences of 0..255;    *)
(* Python index i is sequence position i + 1.                              *)
(***************************************************************************)
EXTENDS Integers, Sequences, FiniteSets, TLC

VARIABLES
  \* image_processing.py under call
  bmp_data_mv,   \* the buffer handed to an image_processing function
  call,          \* the call made on it: [fn, threshold, inversion, depth, runtime]
  ret,           \* what the call did: [exc, msg, val]
  \* cnn-server.py
  srv_pc,        \* "accept" | "stream" (top of the frame loop) | "infer" | "halted"
  cur,           \* index in conns of client_socket, 0 before the first accept
  conns,         \* every connection made to the server, in order of connecting
  img_data,      \* the frame cam.capture() returned last (None, or of CameraFrames)
  run_input,     \* the array handed to model.run() last
  probabilities, \* the probability array model.run() writes
  \* client.py / client-cnn.py
  client_pc,     \* "init" | "recv" | "incomplete" | "done"
  client_conn,   \* index in conns of the client's socket, 0 before it connects
  rx_pos,        \* how many bytes of its connection's stream the client has read
  frame_buffer,  \* the bytes gathered for the frame being received: [start, len]
  decoded        \* the frame buffer the client decoded last: [start, len]

libvars == <<bmp_data_mv, call, ret>>
srvvars == <<srv_pc, cur, conns, img_data, run_input, probabilities>>
clientvars == <<client_pc, client_conn, rx_pos, frame_buffer, decoded>>
netvars == <<srvvars, clientvars>>
vars == <<libvars, netvars>>

(***************************************************************************)
(* Bounds of the model.                                                    *)
(***************************************************************************)
\* hashed pixel patterns offered as input: seeds 0 .. NumSeeds - 1
NumSeeds == 2
\* connections made to the server in one run
MaxConns == 2
\* frames the server captures in one run
MaxFrames == 2
\* the most bytes one recv() of the client returns when it returns less than asked
MaxSegment == 8192

(***************************************************************************)
(* Constants of image_processing.py (the same in all four transforms).     *)
(***************************************************************************)
OLD_WIDTH == 96
OLD_HEIGHT == 96
NEW_WIDTH == 32
NEW_HEIGHT == 32
OLD_BMP_HEADER_SIZE == 14
OLD_DIB_HEADER_SIZE == 40
OLD_PALETTE_SIZE == 256 * 4
NEW_BMP_HEADER_SIZE == 14
NEW_DIB_HEADER_SIZE == 40
NEW_PALETTE_SIZE == 256 * 4
NEW_ROW_PADDING == NEW_WIDTH % 4
new_file_size ==
  NEW_BMP_HEADER_SIZE + NEW_DIB_HEADER_SIZE + NEW_PALETTE_SIZE
    + (NEW_WIDTH + NEW_ROW_PADDING) * NEW_HEIGHT

\* strip_bmp_header's own constants
BMP_HEADER_SIZE == 54
PALETTE_SIZE == 256 * 4

(***************************************************************************)
(* Python primitives.                                                      *)
(***************************************************************************)
Min(a, b) == IF a <= b THEN a ELSE b
Max(a, b) == IF a >= b THEN a ELSE b

\* b[i] for 0 <= i < len(b)
At(b, i) == b[i + 1]

\* b[lo:hi] with 0 <= lo, hi: the bounds are clipped to len(b)
PySlice(b, lo, hi) == SubSeq(b, Min(lo, Len(b)) + 1, Min(hi, Len(b)))

\* b[lo:]
PySliceFrom(b, lo) == SubSeq(b, Min(lo, Len(b)) + 1, Len(b))

\* bytearray b after b[lo:hi] = v: the clipped range is replaced by v,
\* whatever v's length (the bytearray grows or shrinks)
PySliceAssign(b, lo, hi, v) ==
  LET l == Min(lo, Len(b))
      h == Max(l, Min(hi, Len(b)))
  IN SubSeq(b, 1, l) \o v \o SubSeq(b, h + 1, Len(b))

\* the function f on 1..n as a sequence value
AsSeq(f, n) == SubSeq(f, 1, n)

\* n.to_bytes(length, 'little')
to_bytes(n, length) == AsSeq([i \in 1..length |-> (n \div (256 ^ (i - 1))) % 256], length)

\* bytearray(n): n zero bytes
bytearray(n) == AsSeq([i \in 1..n |-> 0], n)

\* what a call leaves behind: a returned value, or a raised exception
Return(v) == [exc |-> "", msg |-> "", val |-> v]
Raise(e, m) == [exc |-> e, msg |-> m, val |-> <<>>]

Runtimes == {"CPython", "MicroPython"}

\* bytearray item store b[i] = v: CPython refuses a value outside 0..255,
\* MicroPython keeps its low eight bits
StoreValue(runtime, v) ==
  IF v \in 0..255 THEN Return(v)
  ELSE IF runtime = "CPython"
       THEN Raise("ValueError", "byte must be in range(0, 256)")
       ELSE Return(v % 256)

(***************************************************************************)
(* The header and palette block every transform builds before its loop.    *)
(* The same statements stand at lines 56-73, 133-155, 209-226, 345-362.    *)
(***************************************************************************)
\* CopyPalette reading the palette right after the file header (the DIB header size
\* left out of palette_offset)
CopyPalette_AfterFileHeader(new_bmp_data, bmp_data) ==
  LET palette_offset == OLD_BMP_HEADER_SIZE
      new_palette_offset == NEW_BMP_HEADER_SIZE + NEW_DIB_HEADER_SIZE
  IN PySliceAssign(new_bmp_data, new_palette_offset, new_palette_offset + OLD_PALETTE_SIZE,
                   PySlice(bmp_data, palette_offset, palette_offset + OLD_PALETTE_SIZE))

\* lines 58-62: the palette slice of the source, assigned to the palette slice of the
\* new buffer
CopyPalette(new_bmp_data, bmp_data) ==
  LET palette_offset == OLD_BMP_HEADER_SIZE + OLD_DIB_HEADER_SIZE
      new_palette_offset == NEW_BMP_HEADER_SIZE + NEW_DIB_HEADER_SIZE
  IN PySliceAssign(new_bmp_data, new_palette_offset, new_palette_offset + OLD_PALETTE_SIZE,
                   PySlice(bmp_data, palette_offset, palette_offset + OLD_PALETTE_SIZE))

\* lines 64-73: the header fields
FillHeader(new_bmp_data) ==
  LET b2 == PySliceAssign(new_bmp_data, 0, 2, <<66, 77>>)
      b3 == PySliceAssign(b2, 2, 6, to_bytes(new_file_size, 4))
      b4 == PySliceAssign(b3, 10, 14,
              to_bytes(NEW_BMP_HEADER_SIZE + NEW_DIB_HEADER_SIZE + NEW_PALETTE_SIZE, 4))
      b5 == PySliceAssign(b4, 14, 18, to_bytes(NEW_DIB_HEADER_SIZE, 4))
      b6 == PySliceAssign(b5, 18, 22, to_bytes(NEW_WIDTH, 4))
      b7 == PySliceAssign(b6, 22, 26, to_bytes(NEW_HEIGHT, 4))
      b8 == PySliceAssign(b7, 26, 28, <<1, 0>>)
      b9 == PySliceAssign(b8, 28, 30, <<8, 0>>)
  IN PySliceAssign(b9, 34, 38, to_bytes((NEW_WIDTH + NEW_ROW_PADDING) * NEW_HEIGHT, 4))

NewBmpHeader(bmp_data) == FillHeader(CopyPalette(bytearray(new_file_size), bmp_data))

old_pixel_data_offset == OLD_BMP_HEADER_SIZE + OLD_DIB_HEADER_SIZE + OLD_PALETTE_SIZE
new_pixel_data_offset0 == NEW_BMP_HEADER_SIZE + NEW_DIB_HEADER_SIZE + NEW_PALETTE_SIZE

\* new_pixel_data_offset when the loop body runs for (new_y, new_x): it starts at
\* new_pixel_data_offset0, grows by 1 per pixel written and by NEW_ROW_PADDING
\* after each finished row
new_pixel_data_offset(new_y, new_x) ==
  new_pixel_data_offset0 + new_y * (NEW_WIDTH + NEW_ROW_PADDING) + new_x

(***************************************************************************)
(* The nearest sample of the three "every 3rd pixel" transforms:           *)
(* the byte read for destination (new_x, new_y), or the IndexError of an   *)
(* index past the end of bmp_data.                                         *)
(***************************************************************************)
\* old_pixel_offset with the source row taken top-down (no OLD_HEIGHT - 1 - old_y)
old_pixel_offset_TopDown(new_y, new_x) ==
  LET old_x == (new_x * OLD_WIDTH) \div NEW_WIDTH
      old_y == (new_y * OLD_HEIGHT) \div NEW_HEIGHT
  IN old_pixel_data_offset + old_y * (OLD_WIDTH + (OLD_WIDTH % 4)) + old_x

old_pixel_offset(new_y, new_x) ==
  LET old_x == (new_x * OLD_WIDTH) \div NEW_WIDTH
      old_y0 == (new_y * OLD_HEIGHT) \div NEW_HEIGHT
      old_y == OLD_HEIGHT - 1 - old_y0
  IN old_pixel_data_offset + old_y * (OLD_WIDTH + (OLD_WIDTH % 4)) + old_x

\* bmp_data[offset] (& 0xFF leaves a byte as it is)
ReadByte(bmp_data, offset) ==
  IF offset < Len(bmp_data)
  THEN Return(At(bmp_data, offset) % 256)
  ELSE Raise("IndexError", "bytearray index out of range")

(***************************************************************************)
(* for new_y in range(NEW_HEIGHT): for new_x in range(NEW_WIDTH): ...      *)
(* Each iteration computes pixel_value (pixels[new_y, new_x], a Return or  *)
(* a Raise) and stores it at new_pixel_data_offset. No iteration reads what *)
(* another wrote, so the loop is the family of its iterations: it raises   *)
(* what its first failing iteration raises, and otherwise returns the      *)
(* buffer with every store applied.                                        *)
(***************************************************************************)
Iteration(new_len, runtime, k, pixels) ==
  LET new_y == k \div NEW_WIDTH
      new_x == k % NEW_WIDTH
      p == pixels[new_y, new_x]
  IN IF p.exc # "" THEN p
     ELSE IF new_pixel_data_offset(new_y, new_x) >= new_len
          THEN Raise("IndexError", "bytearray index out of range")
          ELSE StoreValue(runtime, p.val)

PixelLoop(new_bmp_data, runtime, pixels) ==
  LET new_len == Len(new_bmp_data)
      count == NEW_HEIGHT * NEW_WIDTH
      \* its[k + 1]: what iteration k (new_y = k div NEW_WIDTH, new_x = k mod NEW_WIDTH) did
      its == AsSeq([n \in 1..count |-> Iteration(new_len, runtime, n - 1, pixels)], count)
      failed == {n \in 1..count : its[n].exc # ""}
      first == CHOOSE n \in failed : \A m \in failed : n <= m
      stride == NEW_WIDTH + NEW_ROW_PADDING
  IN IF failed # {} THEN its[first]
     ELSE Return(AsSeq([i \in 1..new_len |->
            LET j == i - 1 - new_pixel_data_offset0
            IN IF j >= 0 /\ j \div stride < NEW_HEIGHT /\ j % stride < NEW_WIDTH
               THEN its[(j \div stride) * NEW_WIDTH + (j % stride) + 1].val
               ELSE new_bmp_data[i]], new_len))

(***************************************************************************)
(* The four transforms.                                                    *)
(***************************************************************************)
\* range(NEW_HEIGHT), range(NEW_WIDTH)
Rows == 0..(NEW_HEIGHT - 1)
Cols == 0..(NEW_WIDTH - 1)

resize_96x96_to_32x32(bmp_data) ==
  PixelLoop(NewBmpHeader(bmp_data), "CPython",
            [new_y \in Rows, new_x \in Cols |->
               ReadByte(bmp_data, old_pixel_offset(new_y, new_x))])

\* ThresholdValue that leaves the inversion flag out
ThresholdValue_NoInversion(value, threshold, inversion) ==
  IF value >= threshold THEN 255 ELSE 0

\* ThresholdValue with a strict comparison
ThresholdValue_Strict(value, threshold, inversion) ==
  IF inversion
  THEN (IF value > threshold THEN 0 ELSE 255)
  ELSE (IF value > threshold THEN 255 ELSE 0)

ThresholdValue(value, threshold, inversion) ==
  IF inversion
  THEN (IF value >= threshold THEN 0 ELSE 255)
  ELSE (IF value >= threshold THEN 255 ELSE 0)

resize_96x96_to_32x32_and_threshold(bmp_data, threshold, inversion) ==
  PixelLoop(NewBmpHeader(bmp_data), "CPython",
            [new_y \in Rows, new_x \in Cols |->
               LET r == ReadByte(bmp_data, old_pixel_offset(new_y, new_x))
               IN IF r.exc # "" THEN r
                  ELSE IF threshold >= 0
                       THEN Return(ThresholdValue(r.val, threshold, inversion))
                       ELSE r])

\* QuantizeValue giving the lower end of the range instead of its centre
QuantizeValue_LowerEnd(pixel_value, range_size) ==
  IF range_size = 0
  THEN Raise("ZeroDivisionError", "integer division or modulo by zero")
  ELSE LET quantized_level == pixel_value \div range_size
       IN Return(quantized_level * range_size)

QuantizeValue(pixel_value, range_size) ==
  IF range_size = 0
  THEN Raise("ZeroDivisionError", "integer division or modulo by zero")
  ELSE LET quantized_level == pixel_value \div range_size
       IN Return((quantized_level * range_size) + range_size \div 2)

resize_96x96_to_32x32_quantized(bmp_data, depth0, runtime) ==
  LET depth == IF depth0 < 2 THEN 256 ELSE depth0
      range_size == 256 \div depth
  IN PixelLoop(NewBmpHeader(bmp_data), runtime,
               [new_y \in Rows, new_x \in Cols |->
                  LET r == ReadByte(bmp_data, old_pixel_offset(new_y, new_x))
                  IN IF r.exc # "" THEN r ELSE QuantizeValue(r.val, range_size)])

scale_factor == OLD_WIDTH \div NEW_WIDTH

\* BlockRowStart without the bottom-up mirroring
BlockRowStart_TopDown(new_y) == new_y * scale_factor

\* old_y_start: the first source row of the block of destination row new_y
BlockRowStart(new_y) == (NEW_HEIGHT - 1 - new_y) * scale_factor

\* for old_y in range(old_y_start, old_y_end): for old_x in range(old_x_start,
\* old_x_end): the reads in the order the loops make them; the first that fails ends
\* the call, otherwise pixel_sum // pixel_count
BlockAverage(bmp_data, new_y, new_x) ==
  LET row_stride == OLD_WIDTH + (OLD_WIDTH % 4)
      old_x_start == new_x * scale_factor
      old_y_start == BlockRowStart(new_y)
      old_x_end == old_x_start + scale_factor
      old_y_end == old_y_start + scale_factor
      width == old_x_end - old_x_start
      pixel_count == (old_y_end - old_y_start) * width
      reads == [n \in 1..pixel_count |->
                  LET old_y == old_y_start + ((n - 1) \div width)
                      old_x == old_x_start + ((n - 1) % width)
                  IN ReadByte(bmp_data, old_pixel_data_offset + old_y * row_stride + old_x)]
      failed == {n \in 1..pixel_count : reads[n].exc # ""}
      first == CHOOSE n \in failed : \A m \in failed : n <= m
      pixel_sum[n \in 0..pixel_count] ==
        IF n = 0 THEN 0 ELSE pixel_sum[n - 1] + reads[n].val
  IN IF failed # {} THEN reads[first]
     ELSE Return(pixel_sum[pixel_count] \div pixel_count)

resize_96x96_to_32x32_averaged_and_threshold(bmp_data, threshold, inversion) ==
  PixelLoop(NewBmpHeader(bmp_data), "CPython",
            [new_y \in Rows, new_x \in Cols |->
               LET avg == BlockAverage(bmp_data, new_y, new_x)
               IN IF avg.exc # "" THEN avg
                  ELSE Return(ThresholdValue(avg.val, threshold, inversion))])

(***************************************************************************)
(* strip_bmp_header                                                        *)
(***************************************************************************)
InsufficientData ==
  "Invalid BMP file: insufficient data for header, palette, and pixel data."
NotThirtyTwoSquare == "Invalid BMP file: pixel data size is not 32x32."

\* strip_bmp_header with a strict first comparison
strip_bmp_header_Strict(bmp_byte_array) ==
  IF Len(bmp_byte_array) < BMP_HEADER_SIZE + PALETTE_SIZE
  THEN Raise("ValueError", InsufficientData)
  ELSE LET pixel_data_start == BMP_HEADER_SIZE + PALETTE_SIZE
           pixel_data == PySliceFrom(bmp_byte_array, pixel_data_start)
       IN IF Len(pixel_data) # 32 * 32
          THEN Raise("ValueError", NotThirtyTwoSquare)
          ELSE Return(pixel_data)

strip_bmp_header(bmp_byte_array) ==
  IF Len(bmp_byte_array) <= BMP_HEADER_SIZE + PALETTE_SIZE
  THEN Raise("ValueError", InsufficientData)
  ELSE LET pixel_data_start == BMP_HEADER_SIZE + PALETTE_SIZE
           pixel_data == PySliceFrom(bmp_byte_array, pixel_data_start)
       IN IF Len(pixel_data) # 32 * 32
          THEN Raise("ValueError", NotThirtyTwoSquare)
          ELSE Return(pixel_data)

(***************************************************************************)
(* Input buffers. capture() hands over a complete 96x96 8bpp BMP: 14-byte  *)
(* file header, 40-byte DIB header, 256 x 4 palette, 96 bottom-up rows.    *)
(***************************************************************************)
SOURCE_FILE_SIZE ==
  OLD_BMP_HEADER_SIZE + OLD_DIB_HEADER_SIZE + OLD_PALETTE_SIZE
    + (OLD_WIDTH + (OLD_WIDTH % 4)) * OLD_HEIGHT

\* palette entry i is (i, i, i, 0) for "gray", and the reverse ramp for "inverse"
PaletteByte(palette, j) ==
  LET i == j \div 4
  IN IF j % 4 = 3 THEN 0 ELSE IF palette = "gray" THEN i ELSE 255 - i

\* the pixel stored at row `row` (storage order, row 0 first in the file) and
\* column `col` of a pattern
PatternPixel(pat, row, col) ==
  CASE pat.kind = "uniform" -> pat.v
    [] pat.kind = "block" ->
         IF row \div 3 = pat.by /\ col \div 3 = pat.bx THEN pat.hi ELSE pat.lo
    [] OTHER -> (row * 7 + col * 13 + pat.seed * 31) % 256

SourceBmp(palette, pat) ==
  LET head == PySliceAssign(PySliceAssign(PySliceAssign(PySliceAssign(
              PySliceAssign(PySliceAssign(PySliceAssign(PySliceAssign(PySliceAssign(
                bytearray(OLD_BMP_HEADER_SIZE + OLD_DIB_HEADER_SIZE),
                0, 2, <<66, 77>>),
                2, 6, to_bytes(SOURCE_FILE_SIZE, 4)),
                10, 14, to_bytes(old_pixel_data_offset, 4)),
                14, 18, to_bytes(OLD_DIB_HEADER_SIZE, 4)),
                18, 22, to_bytes(OLD_WIDTH, 4)),
                22, 26, to_bytes(OLD_HEIGHT, 4)),
                26, 28, <<1, 0>>),
                28, 30, <<8, 0>>),
                34, 38, to_bytes(OLD_WIDTH * OLD_HEIGHT, 4))
      stride == OLD_WIDTH + (OLD_WIDTH % 4)
  IN AsSeq([i \in 1..SOURCE_FILE_SIZE |->
        IF i <= Len(head) THEN head[i]
        ELSE IF i <= old_pixel_data_offset THEN PaletteByte(palette, i - 1 - Len(head))
        ELSE PatternPixel(pat, (i - 1 - old_pixel_data_offset) \div stride,
                               (i - 1 - old_pixel_data_offset) % stride)],
           SOURCE_FILE_SIZE)

Uniform(v) == [kind |-> "uniform", v |-> v, bx |-> 0, by |-> 0, hi |-> 0, lo |-> 0, seed |-> 0]
Block(bx, by, hi, lo) ==
  [kind |-> "block", v |-> 0, bx |-> bx, by |-> by, hi |-> hi, lo |-> lo, seed |-> 0]
Hashed(seed) == [kind |-> "hashed", v |-> 0, bx |-> 0, by |-> 0, hi |-> 0, lo |-> 0, seed |-> seed]

UniformValues == {0, 1, 127, 128, 129, 254, 255}
Patterns ==
  {Uniform(v) : v \in UniformValues}
    \cup {Block(0, 0, 200, 50), Block(0, 31, 200, 50), Block(5, 7, 200, 50),
          Block(31, 0, 130, 120)}
    \cup {Hashed(s) : s \in 0..(NumSeeds - 1)}

ValidSources ==
  {SourceBmp("gray", pat) : pat \in Patterns} \cup {SourceBmp("inverse", Hashed(0))}

\* lengths of the truncated (or over-long) buffers offered as input
OddLengths == {0, 53, 1077, 1078, 1079, 2101, 2102, 2103, 10198, 10199, 10291, 10292, 10293}
OddBuffers ==
  {PySlice(SourceBmp("gray", Hashed(0)), 0, n) : n \in OddLengths}
    \cup {SourceBmp("gray", Hashed(0)) \o <<7>>}

Thresholds == {-1, 0, 1, 127, 128, 129, 255, 256}
Depths == {-3, 0, 1, 2, 3, 4, 16, 256, 257}

NoCall == [fn |-> "none", threshold |-> 0, inversion |-> FALSE, depth |-> 0,
           runtime |-> "CPython"]

(***************************************************************************)
(* Text. A str is the sequence of its code points; bytes.decode() and      *)
(* str.encode() are UTF-8.                                                 *)
(***************************************************************************)
IsContinuation(x) == x \in 128..191

\* continuation bytes a lead byte announces; -1 for a byte that starts no character
Following(x) ==
  IF x < 128 THEN 0
  ELSE IF x \in 194..223 THEN 1
  ELSE IF x \in 224..239 THEN 2
  ELSE IF x \in 240..244 THEN 3
  ELSE -1

WellFormed(b) ==
  \A i \in 1..Len(b) :
    IF IsContinuation(b[i])
    THEN \E d \in 1..3 : i - d >= 1 /\ Following(b[i - d]) >= d
    ELSE /\ Following(b[i]) >= 0
         /\ i + Following(b[i]) <= Len(b)
         /\ \A d \in 1..Following(b[i]) : IsContinuation(b[i + d])

CodePoint(b, i) ==
  CASE Following(b[i]) = 0 -> b[i]
    [] Following(b[i]) = 1 -> (b[i] - 192) * 64 + (b[i + 1] - 128)
    [] Following(b[i]) = 2 ->
         (b[i] - 224) * 4096 + (b[i + 1] - 128) * 64 + (b[i + 2] - 128)
    [] OTHER ->
         (b[i] - 240) * 262144 + (b[i + 1] - 128) * 4096 + (b[i + 2] - 128) * 64
           + (b[i + 3] - 128)

\* the k-th smallest member of a set of integers
Kth(S, k) == CHOOSE i \in S : Cardinality({j \in S : j < i}) = k - 1

\* bytes.decode(): the str, or UnicodeError
decode(b) ==
  IF ~WellFormed(b)
  THEN Raise("UnicodeError", "")
  ELSE LET starts == {i \in 1..Len(b) : ~IsContinuation(b[i])}
       IN Return([k \in 1..Cardinality(starts) |-> CodePoint(b, Kth(starts, k))])

\* str.encode() of a str of ASCII characters
encode(s) == s

IsSpace(ch) == ch \in {9, 10, 11, 12, 13, 32}

\* s.split("\r\n")[0]: s up to its first CR LF, all of s when it has none
FirstLine(s) ==
  LET hits == {i \in 1..(Len(s) - 1) : s[i] = 13 /\ s[i + 1] = 10}
  IN IF hits = {} THEN s ELSE SubSeq(s, 1, Kth(hits, 1) - 1)

\* s.split(): the runs of non-whitespace characters
SplitWhitespace(s) ==
  LET starts == {i \in 1..Len(s) : ~IsSpace(s[i]) /\ (i = 1 \/ IsSpace(s[i - 1]))}
      stop(i) == Kth({j \in i..Len(s) : j = Len(s) \/ IsSpace(s[j + 1])}, 1)
  IN [k \in 1..Cardinality(starts) |-> SubSeq(s, Kth(starts, k), stop(Kth(starts, k)))]

\* s.split(sep) for a one-character separator
SplitOn(s, sep) ==
  LET cuts == {i \in 1..Len(s) : s[i] = sep}
      n == Cardinality(cuts)
      from(k) == IF k = 1 THEN 1 ELSE Kth(cuts, k - 1) + 1
      upto(k) == IF k = n + 1 THEN Len(s) ELSE Kth(cuts, k) - 1
  IN [k \in 1..(n + 1) |-> SubSeq(s, from(k), upto(k))]

(***************************************************************************)
(* cnn-server.py                                                           *)
(***************************************************************************)
\* 'Yatin', '210899'
UID == <<89, 97, 116, 105, 110>>
PWD == <<50, 49, 48, 56, 57, 57>>

\* "Rock", "Paper", "Scissors"
CLASS_NAMES ==
  << <<82, 111, 99, 107>>, <<80, 97, 112, 101, 114>>,
     <<83, 99, 105, 115, 115, 111, 114, 115>> >>

\* argmax(arr): max(range(len(arr)), key=...) keeps the first index of the maximum
argmax(arr) ==
  CHOOSE i \in 0..(Len(arr) - 1) :
    /\ \A j \in 0..(Len(arr) - 1) : At(arr, j) <= At(arr, i)
    /\ \A j \in 0..(i - 1) : At(arr, j) < At(arr, i)

\* PredictionLine without the line end
PredictionLine_Unterminated(predicted_class) ==
  encode(<<80, 82, 69, 68, 73, 67, 84, 73, 79, 78, 58, 32>>
           \o At(CLASS_NAMES, predicted_class))

\* f"PREDICTION: {CLASS_NAMES[predicted_class]}\n".encode()
PredictionLine(predicted_class) ==
  encode(<<80, 82, 69, 68, 73, 67, 84, 73, 79, 78, 58, 32>>
           \o At(CLASS_NAMES, predicted_class) \o <<10>>)

\* request = client_socket.recv(200).decode(), then the try block of lines 90-99:
\*   "uncaught"       decode() raised, outside the try: the script ends
\*   "invalid"        the bare except: the path is missing or has not three parts
\*   "unauthorized"   uid or pwd differs
\*   "authenticated"
Authenticate(sent) ==
  LET request == decode(PySlice(sent, 0, 200))
      words == SplitWhitespace(FirstLine(request.val))
      parts == SplitOn(words[2], 47)
  IN IF request.exc # "" THEN "uncaught"
     ELSE IF Len(words) < 2 THEN "invalid"
     ELSE IF Len(parts) # 3 THEN "invalid"
     ELSE IF ~(parts[2] = UID /\ parts[3] = PWD) THEN "unauthorized"
     ELSE "authenticated"

(***************************************************************************)
(* client.py / client-cnn.py (the same program; the names are those of     *)
(* client-cnn.py)                                                          *)
(***************************************************************************)
TOTAL_FRAME_SIZE == 10294

\* "Yatin", "210899", "172.20.10.8"
USERNAME == <<89, 97, 116, 105, 110>>
PASSWORD == <<50, 49, 48, 56, 57, 57>>
ESP32_HOST == <<49, 55, 50, 46, 50, 48, 46, 49, 48, 46, 56>>

\* f"GET /{USERNAME}/{PASSWORD} HTTP/1.1\r\nHost: {ESP32_ADDRESS[0]}\r\n\r\n".encode()
login_payload ==
  encode(<<71, 69, 84, 32, 47>> \o USERNAME \o <<47>> \o PASSWORD
           \o <<32, 72, 84, 84, 80, 47, 49, 46, 49, 13, 10, 72, 111, 115, 116, 58, 32>>
           \o ESP32_HOST \o <<13, 10, 13, 10>>)

(***************************************************************************)
(* What the surroundings offer.                                            *)
(***************************************************************************)
\* requests of peers other than the client program
OtherRequests ==
  { \* GET /Yatin/210898 HTTP/1.1 (wrong password)
    <<71, 69, 84, 32, 47, 89, 97, 116, 105, 110, 47, 50, 49, 48, 56, 57, 56, 32,
      72, 84, 84, 80, 47, 49, 46, 49, 13, 10, 13, 10>>,
    \* GET /yatin/210899 HTTP/1.1 (user name in lower case)
    <<71, 69, 84, 32, 47, 121, 97, 116, 105, 110, 47, 50, 49, 48, 56, 57, 57, 32,
      72, 84, 84, 80, 47, 49, 46, 49, 13, 10, 13, 10>>,
    \* GET /Yatin/210899/x HTTP/1.1 (four parts)
    <<71, 69, 84, 32, 47, 89, 97, 116, 105, 110, 47, 50, 49, 48, 56, 57, 57, 47, 120, 32,
      72, 84, 84, 80, 47, 49, 46, 49, 13, 10, 13, 10>>,
    \* GET /Yatin HTTP/1.1 (two parts)
    <<71, 69, 84, 32, 47, 89, 97, 116, 105, 110, 32, 72, 84, 84, 80, 47, 49, 46, 49,
      13, 10, 13, 10>>,
    \* GET (no path)
    <<71, 69, 84>>,
    \* nothing: the peer closed at once
    <<>>,
    \* GET /Yatin/210899 followed by the byte 0xFF (not UTF-8)
    <<71, 69, 84, 32, 47, 89, 97, 116, 105, 110, 47, 50, 49, 48, 56, 57, 57, 255,
      13, 10, 13, 10>>,
    \* GET x/Yatin/210899 HTTP/1.1 (text before the first slash)
    <<71, 69, 84, 32, 120, 47, 89, 97, 116, 105, 110, 47, 50, 49, 48, 56, 57, 57, 32,
      72, 84, 84, 80, 47, 49, 46, 49, 13, 10, 13, 10>> }

\* what cam.capture() returns when it returns a frame: the "gray" source of a pattern
CameraFrames == {Uniform(255), Uniform(0), Hashed(0)}

\* what model.run() leaves in the probability array (hundredths): the loaded model
\* fixes it for each input, here a tie, then one for each of the other two classes
RunOutputs ==
  [f \in CameraFrames |->
     CASE f = Uniform(255) -> <<40, 40, 20>>
       [] f = Uniform(0) -> <<5, 90, 5>>
       [] OTHER -> <<5, 5, 90>>]

(***************************************************************************)
(* Connections. A connection carries what the peer sent (request), what    *)
(* the server sent on it (tx: one entry per sendall call, in order) and    *)
(* where the server's end stands. A captured frame is never changed by the *)
(* server, so a frame in flight is kept as the frame it is (a member of    *)
(* CameraFrames) and FrameBytes gives its bytes.                           *)
(***************************************************************************)
None == [kind |-> "none", v |-> 0, bx |-> 0, by |-> 0, hi |-> 0, lo |-> 0, seed |-> 0]

\* the bytes of each frame the camera may return
FrameBytes == [f \in CameraFrames |-> SourceBmp("gray", f)]

\* the argument of a sendall call: a captured frame, or text
FrameData(f) == [frame |-> f, text |-> <<>>]
TextData(t) == [frame |-> None, text |-> t]
DataBytes(d) == IF d.frame = None THEN d.text ELSE FrameBytes[d.frame]

\* request: what the peer sent and the server has not read yet
NewConn(peer, request) ==
  [peer |-> peer, request |-> request, status |-> "pending", authed |-> FALSE, tx |-> <<>>]

\* stream position (0-based) of the first byte of tx[k]; Offset(tx, Len(tx) + 1) is
\* the length of the stream
Offset(tx, k) ==
  LET sum[i \in 0..(k - 1)] == IF i = 0 THEN 0 ELSE sum[i - 1] + tx[i].n
  IN sum[k - 1]

StreamLen(tx) == Offset(tx, Len(tx) + 1)

\* bytes a .. b - 1 of the stream: of each sendall call, the bytes that went out and
\* lie in the range
Window(tx, a, b) ==
  LET piece(k) ==
        LET off == Offset(tx, k)
        IN PySlice(PySlice(DataBytes(tx[k].data), 0, tx[k].n),
                   Max(0, a - off), Max(0, b - off))
      cat[k \in 0..Len(tx)] == IF k = 0 THEN <<>> ELSE cat[k - 1] \o piece(k)
  IN cat[Len(tx)]

NoWindow == [start |-> 0, len |-> 0]

NetIdle ==
  /\ srv_pc = "accept"
  /\ cur = 0
  /\ conns = <<>>
  /\ img_data = None
  /\ run_input = <<>>
  /\ probabilities = <<>>
  /\ client_pc = "init"
  /\ client_conn = 0
  /\ rx_pos = 0
  /\ frame_buffer = NoWindow
  /\ decoded = NoWindow

\* client_socket.sendall(data) going through
Sent(conn, kind, data) ==
  [conn EXCEPT !.tx = Append(@, [kind |-> kind, data |-> data, n |-> Len(DataBytes(data))])]

\* client_socket.sendall(data) raising after `n` bytes went out, and the handler of
\* lines 133-136 closing the socket
SendFailed(conn, data, n) ==
  [conn EXCEPT !.tx = Append(@, [kind |-> "partial", data |-> data, n |-> n]),
               !.status = "closed"]

Closed(conn) == [conn EXCEPT !.status = "closed"]

\* the outcome of lines 89-99 for each request a peer may send
Outcome == [request \in OtherRequests \cup {login_payload} |-> Authenticate(request)]

\* server_socket.listen(1): connections that may wait to be accepted
BACKLOG == 1

\* connections made and not yet accepted
Waiting == {c \in 1..Len(conns) : conns[c].status = "pending"}

\* a peer other than the client program connects and sends its request
PeerConnect ==
  /\ Len(conns) < MaxConns
  /\ Cardinality(Waiting) < BACKLOG
  /\ \E request \in OtherRequests : conns' = Append(conns, NewConn("other", request))
  /\ UNCHANGED <<libvars, srv_pc, cur, img_data, run_input, probabilities, clientvars>>

\* client-cnn.py lines 17-22: connect, send the login request
ClientConnect ==
  /\ client_pc = "init"
  /\ Len(conns) < MaxConns
  /\ Cardinality(Waiting) < BACKLOG
  /\ conns' = Append(conns, NewConn("client", login_payload))
  /\ client_conn' = Len(conns) + 1
  /\ client_pc' = "recv"
  /\ UNCHANGED <<libvars, srv_pc, cur, img_data, run_input, probabilities,
                 rx_pos, frame_buffer, decoded>>

\* cnn-server.py lines 85-102: accept the oldest waiting connection, read its
\* request, authenticate
ServerAccept ==
  /\ srv_pc = "accept"
  /\ \E c \in 1..Len(conns) :
       /\ conns[c].status = "pending"
       /\ \A d \in 1..(c - 1) : conns[d].status # "pending"
       /\ cur' = c
       /\ LET outcome == Outcome[conns[c].request]
          IN CASE outcome = "uncaught" ->
                    /\ srv_pc' = "halted"
                    /\ conns' = [conns EXCEPT ![c].status = "open", ![c].request = <<>>]
                    /\ UNCHANGED probabilities
               [] outcome = "authenticated" ->
                    /\ srv_pc' = "stream"
                    /\ conns' = [conns EXCEPT ![c].status = "open", ![c].authed = TRUE,
                                              ![c].request = <<>>]
                    /\ probabilities' = <<0, 0, 0>>
               [] OTHER ->
                    /\ srv_pc' = "accept"
                    /\ conns' = [conns EXCEPT ![c] = Closed([@ EXCEPT !.request = <<>>])]
                    /\ UNCHANGED probabilities
  /\ UNCHANGED <<libvars, img_data, run_input, clientvars>>

\* frames captured so far, on all connections: each was handed to one sendall call
Captured ==
  Cardinality({ci \in (1..Len(conns)) \X (1..(2 * MaxFrames)) :
                 /\ ci[2] <= Len(conns[ci[1]].tx)
                 /\ conns[ci[1]].tx[ci[2]].data.frame # None})

\* cnn-server.py lines 107-114: capture a frame and send it
ServerCapture ==
  /\ srv_pc = "stream"
  /\ \/ \* capture() returned nothing: the loop starts over
        /\ img_data' = None
        /\ UNCHANGED <<srv_pc, conns>>
     \/ /\ Captured < MaxFrames
        /\ \E frame \in CameraFrames :
             /\ img_data' = frame
             /\ \/ /\ conns' = [conns EXCEPT ![cur] = Sent(@, "frame", FrameData(frame))]
                   /\ srv_pc' = "infer"
                \/ /\ \E n \in {0, Len(FrameBytes[frame]) \div 2} :
                        conns' = [conns EXCEPT ![cur] = SendFailed(@, FrameData(frame), n)]
                   /\ srv_pc' = "accept"
  /\ UNCHANGED <<libvars, cur, run_input, probabilities, clientvars>>

\* resize_96x96_to_32x32_averaged_and_threshold(img_data, threshold=128) for each
\* frame the camera may return
Resized ==
  [f \in CameraFrames |->
     resize_96x96_to_32x32_averaged_and_threshold(FrameBytes[f], 128, FALSE)]

\* array.array('B', img_32x32): the same bytes
ArrayB(b) == b

\* cnn-server.py lines 116-136: reduce the frame, run the model, send the prediction
ServerInfer ==
  /\ srv_pc = "infer"
  /\ LET img_32x32 == Resized[img_data]
         img_32x32_array == ArrayB(img_32x32.val)
     IN IF img_32x32.exc # ""
        THEN /\ conns' = [conns EXCEPT ![cur] = Closed(@)]
             /\ srv_pc' = "accept"
             /\ UNCHANGED <<run_input, probabilities>>
        ELSE /\ run_input' = img_32x32_array
             /\ \/ \* model.run() raised
                   /\ conns' = [conns EXCEPT ![cur] = Closed(@)]
                   /\ srv_pc' = "accept"
                   /\ UNCHANGED probabilities
                \/ /\ probabilities' = RunOutputs[img_data]
                   /\ LET predicted_class == argmax(probabilities')
                          line == TextData(PredictionLine(predicted_class))
                      IN \/ /\ conns' = [conns EXCEPT ![cur] = Sent(@, "line", line)]
                            /\ srv_pc' = "stream"
                         \/ /\ conns' = [conns EXCEPT ![cur] =
                                              SendFailed(@, line, Len(line.text) \div 2)]
                            /\ srv_pc' = "accept"
  /\ UNCHANGED <<libvars, cur, img_data, clientvars>>

\* frame_buffer is the last frame_buffer.len bytes the client read, which start at
\* stream position frame_buffer.start: these are its bytes
BufferBytes(window) ==
  Window(conns[client_conn].tx, window.start, window.start + window.len)

\* client-cnn.py lines 32-37: one recv() of the frame loop
ClientRecv ==
  /\ client_pc = "recv"
  /\ frame_buffer.len < TOTAL_FRAME_SIZE
  /\ LET available == StreamLen(conns[client_conn].tx) - rx_pos
         asked == TOTAL_FRAME_SIZE - frame_buffer.len
     IN \/ /\ available > 0
           /\ \E n \in {Min(asked, available), Min(asked, Min(available, MaxSegment))} :
                /\ frame_buffer' = [start |-> rx_pos - frame_buffer.len,
                                    len |-> frame_buffer.len + n]
                /\ rx_pos' = rx_pos + n
           /\ UNCHANGED client_pc
        \/ \* the server closed: recv() returns b"" and `break` leaves the inner loop
           \* with the frame incomplete
           /\ available = 0
           /\ conns[client_conn].status = "closed"
           /\ client_pc' = "incomplete"
           /\ UNCHANGED <<rx_pos, frame_buffer>>
        \/ \* the server closed and recv() raises: the except branch leaves the loop
           /\ available = 0
           /\ conns[client_conn].status = "closed"
           /\ client_pc' = "done"
           /\ UNCHANGED <<rx_pos, frame_buffer>>
  /\ UNCHANGED <<libvars, srvvars, client_conn, decoded>>

\* client-cnn.py lines 40-42, then 31: "Incomplete frame received ... Retrying...",
\* `continue`, and the next round of the outer loop starts with an empty frame_buffer
ClientRetry ==
  /\ client_pc = "incomplete"
  /\ frame_buffer' = NoWindow
  /\ client_pc' = "recv"
  /\ UNCHANGED <<libvars, srvvars, client_conn, rx_pos, decoded>>

\* client-cnn.py lines 44-54: a full frame buffer is decoded and shown; 'q' ends the loop
ClientDecode ==
  /\ client_pc = "recv"
  /\ frame_buffer.len = TOTAL_FRAME_SIZE
  /\ decoded' = frame_buffer
  /\ frame_buffer' = NoWindow
  /\ \E quit \in BOOLEAN : client_pc' = IF quit THEN "done" ELSE "recv"
  /\ UNCHANGED <<libvars, srvvars, client_conn, rx_pos>>

(***************************************************************************)
(* The library under call: one buffer, one call, its outcome; the reduced  *)
(* image a transform returned may then be handed to strip_bmp_header.      *)
(***************************************************************************)
LibIdle ==
  /\ call = NoCall
  /\ ret = Return(<<>>)

LibInit ==
  /\ bmp_data_mv \in ValidSources \cup OddBuffers
  /\ LibIdle
  /\ NetIdle

CallNearestCopy ==
  /\ call.fn = "none"
  /\ call' = [NoCall EXCEPT !.fn = "resize_96x96_to_32x32"]
  /\ ret' = resize_96x96_to_32x32(bmp_data_mv)
  /\ UNCHANGED <<bmp_data_mv, netvars>>

CallNearestThreshold ==
  /\ call.fn = "none"
  /\ \E threshold \in Thresholds, inversion \in BOOLEAN :
       /\ call' = [NoCall EXCEPT !.fn = "resize_96x96_to_32x32_and_threshold",
                                 !.threshold = threshold, !.inversion = inversion]
       /\ ret' = resize_96x96_to_32x32_and_threshold(bmp_data_mv, threshold, inversion)
  /\ UNCHANGED <<bmp_data_mv, netvars>>

CallAverageThreshold ==
  /\ call.fn = "none"
  /\ \E threshold \in Thresholds, inversion \in BOOLEAN :
       /\ call' = [NoCall EXCEPT !.fn = "resize_96x96_to_32x32_averaged_and_threshold",
                                 !.threshold = threshold, !.inversion = inversion]
       /\ ret' = resize_96x96_to_32x32_averaged_and_threshold(bmp_data_mv, threshold,
                                                               inversion)
  /\ UNCHANGED <<bmp_data_mv, netvars>>

CallQuantize ==
  /\ call.fn = "none"
  /\ \E depth \in Depths, runtime \in Runtimes :
       /\ call' = [NoCall EXCEPT !.fn = "resize_96x96_to_32x32_quantized",
                                 !.depth = depth, !.runtime = runtime]
       /\ ret' = resize_96x96_to_32x32_quantized(bmp_data_mv, depth, runtime)
  /\ UNCHANGED <<bmp_data_mv, netvars>>

Transforms ==
  {"resize_96x96_to_32x32", "resize_96x96_to_32x32_and_threshold",
   "resize_96x96_to_32x32_averaged_and_threshold", "resize_96x96_to_32x32_quantized"}

\* strip_bmp_header on the buffer as given, or on the image a transform returned
CallStrip ==
  /\ \/ call.fn = "none" /\ bmp_data_mv' = bmp_data_mv
     \/ call.fn \in Transforms /\ ret.exc = "" /\ bmp_data_mv' = ret.val
  /\ call' = [NoCall EXCEPT !.fn = "strip_bmp_header"]
  /\ ret' = strip_bmp_header(bmp_data_mv')
  /\ UNCHANGED netvars

LibNext ==
  \/ CallNearestCopy
  \/ CallNearestThreshold
  \/ CallAverageThreshold
  \/ CallQuantize
  \/ CallStrip

Spec == LibInit /\ [][LibNext]_vars

NetInit ==
  /\ bmp_data_mv = <<>>
  /\ LibIdle
  /\ NetIdle

NetNext ==
  \/ PeerConnect
  \/ ClientConnect
  \/ ServerAccept
  \/ ServerCapture
  \/ ServerInfer
  \/ ClientRecv
  \/ ClientRetry
  \/ ClientDecode

NetSpec == NetInit /\ [][NetNext]_vars

\* The client program keeps running: a step of it that can be taken is taken.
NetFairSpec ==
  /\ NetSpec
  /\ WF_vars(ClientRecv)
  /\ WF_vars(ClientRetry)
  /\ WF_vars(ClientDecode)

\* The server and the connections made to it. ClientRecv and ClientDecode change
\* nothing the server reads (they leave srvvars alone), so what holds of the server's
\* variables here holds of them under NetSpec.
ServerNext ==
  \/ PeerConnect
  \/ ClientConnect
  \/ ServerAccept
  \/ ServerCapture
  \/ ServerInfer

ServerSpec == NetInit /\ [][ServerNext]_vars

(***************************************************************************)
(* Properties of the library (Spec)                                        *)
(***************************************************************************)
\* little-endian fields of a buffer
LE16(b, offset) == At(b, offset) + 256 * At(b, offset + 1)
LE32(b, offset) == LE16(b, offset) + 65536 * LE16(b, offset + 2)

\* the call at hand is transform fn on a full-size source and has returned
Reduced(fn) ==
  /\ call.fn = fn
  /\ Len(bmp_data_mv) = 10294

\* pixel (x, y) of a 32x32 image, pixel (x, y) of a 96x96 source, in storage order
TargetPixel(b, x, y) == At(b, 1078 + 32 * y + x)
SourcePixel(b, x, y) == At(b, 1078 + 96 * y + x)

\* C1: for a 10294-byte source, resize_96x96_to_32x32 returns a buffer whose byte
\* 1078 + 32*y + x is the source byte 1078 + 96*(95 - 3*y) + 3*x, for all x, y in 0..31.
C1_NearestCopyMapping ==
  Reduced("resize_96x96_to_32x32") =>
    /\ ret.exc = ""
    /\ \A x \in 0..31, y \in 0..31 :
         At(ret.val, 1078 + 32 * y + x) = At(bmp_data_mv, 1078 + 96 * (95 - 3 * y) + 3 * x)

\* a source whose rows differ has been reduced by resize_96x96_to_32x32
C1_Witness ==
  /\ Reduced("resize_96x96_to_32x32")
  /\ ret.exc = ""
  /\ SourcePixel(bmp_data_mv, 0, 0) # SourcePixel(bmp_data_mv, 0, 95)
  /\ TargetPixel(ret.val, 0, 0) = SourcePixel(bmp_data_mv, 0, 95)

\* C2 (as the specification states it): a transform given fewer than 10294 bytes
\* fails with the insufficient-data error, and returns nothing.
C2_ShortInputRejected ==
  (call.fn \in Transforms /\ Len(bmp_data_mv) < 10294) =>
    /\ ret.exc = "ValueError"
    /\ ret.msg = InsufficientData
    /\ ret.val = <<>>

\* C3: what a transform returns for a 10294-byte source is a 32x32 8-bit BMP: 2102
\* bytes, 'BM', size field 2102, data offset 1078, DIB size 40, width and height 32,
\* one plane, 8 bits per pixel, image size 1024, and the palette of the source.
C3_ValidTargetBmp ==
  (call.fn \in Transforms /\ Len(bmp_data_mv) = 10294 /\ ret.exc = "") =>
    /\ Len(ret.val) = 2102
    /\ At(ret.val, 0) = 66 /\ At(ret.val, 1) = 77
    /\ LE32(ret.val, 2) = Len(ret.val)
    /\ LE32(ret.val, 10) = 1078
    /\ LE32(ret.val, 14) = 40
    /\ LE32(ret.val, 18) = 32
    /\ LE32(ret.val, 22) = 32
    /\ LE16(ret.val, 26) = 1
    /\ LE16(ret.val, 28) = 8
    /\ LE32(ret.val, 34) = 1024
    /\ \A i \in 54..1077 : At(ret.val, i) = At(bmp_data_mv, i)

\* a source with the inverted palette has been quantized to four levels
C3_Witness ==
  /\ Reduced("resize_96x96_to_32x32_quantized")
  /\ call.depth = 4
  /\ ret.exc = ""
  /\ At(bmp_data_mv, 54) = 255
  /\ At(ret.val, 54) = 255

BlockSource == SourceBmp("gray", Block(0, 0, 200, 50))

\* C9: for the source with 200 in the 3x3 block at the start of the pixel data and 50
\* elsewhere, the averaged transform with threshold 128 and no inversion returns 255 at
\* target pixel new_x = 0, new_y = 31 and 0 at the other 1023 pixels.
C9_BlockScenario ==
  (/\ Reduced("resize_96x96_to_32x32_averaged_and_threshold")
   /\ bmp_data_mv = BlockSource
   /\ call.threshold = 128
   /\ ~call.inversion) =>
    /\ ret.exc = ""
    /\ \A x \in 0..31, y \in 0..31 :
         TargetPixel(ret.val, x, y) = IF x = 0 /\ y = 31 THEN 255 ELSE 0

\* the scenario has run
C9_Witness ==
  /\ Reduced("resize_96x96_to_32x32_averaged_and_threshold")
  /\ bmp_data_mv = BlockSource
  /\ call.threshold = 128
  /\ ~call.inversion
  /\ TargetPixel(ret.val, 0, 31) = 255

\* all 9216 pixels of the source have the value of the first
IsUniform(b) == \A i \in 1078..10293 : At(b, i) = At(b, 1078)

\* C10: for a source of one value v and a threshold t in 0..255, the averaged transform
\* without inversion returns 1024 pixels that are all 255 when v >= t, all 0 when v < t.
C10_UniformSource ==
  (/\ Reduced("resize_96x96_to_32x32_averaged_and_threshold")
   /\ call.threshold \in 0..255
   /\ ~call.inversion
   /\ IsUniform(bmp_data_mv)) =>
    /\ ret.exc = ""
    /\ \A k \in 0..1023 :
         At(ret.val, 1078 + k) =
           IF At(bmp_data_mv, 1078) >= call.threshold THEN 255 ELSE 0

\* a source whose value is the threshold has been reduced to an all-255 image
C10_Witness ==
  /\ Reduced("resize_96x96_to_32x32_averaged_and_threshold")
  /\ call.threshold = 128
  /\ ~call.inversion
  /\ IsUniform(bmp_data_mv)
  /\ At(bmp_data_mv, 1078) = 128
  /\ \A k \in 0..1023 : At(ret.val, 1078 + k) = 255

(***************************************************************************)
(* Properties of the server (ServerSpec) and of the client (NetSpec)       *)
(***************************************************************************)
\* C5 (as the specification states it): what model.run() is given is the 1024-byte
\* pixel payload of the reduced image of a captured frame, the 1078 bytes of header
\* and palette stripped.
C5_RunGetsPixelPayload ==
  run_input # <<>> =>
    /\ Len(run_input) = 1024
    /\ \E f \in CameraFrames : run_input = strip_bmp_header(Resized[f].val).val

\* C6 (as the specification states it): every buffer the client decodes is one whole
\* frame as the server sent it: it starts where a frame starts in the stream and
\* holds that frame's bytes.
C6_DecodedIsOneFrame ==
  decoded.len > 0 =>
    LET tx == conns[client_conn].tx
    IN \E k \in 1..Len(tx) :
         /\ tx[k].kind = "frame"
         /\ Offset(tx, k) = decoded.start
         /\ decoded.len = tx[k].n
         /\ BufferBytes(decoded) = FrameBytes[tx[k].data.frame]

\* "PREDICTION: Rock\n", "PREDICTION: Paper\n", "PREDICTION: Scissors\n"
PredictionLines ==
  { <<80, 82, 69, 68, 73, 67, 84, 73, 79, 78, 58, 32, 82, 111, 99, 107, 10>>,
    <<80, 82, 69, 68, 73, 67, 84, 73, 79, 78, 58, 32, 80, 97, 112, 101, 114, 10>>,
    <<80, 82, 69, 68, 73, 67, 84, 73, 79, 78, 58, 32,
      83, 99, 105, 115, 115, 111, 114, 115, 10>> }

\* entry k of what the server sent is a whole captured frame / a whole prediction line
WholeFrame(e) ==
  /\ e.kind = "frame"
  /\ e.data.frame \in CameraFrames
  /\ e.n = 10294
  /\ Len(DataBytes(e.data)) = 10294
WholeLine(e) ==
  /\ e.kind = "line"
  /\ e.data.frame = None
  /\ e.data.text \in PredictionLines
  /\ e.n = Len(e.data.text)

\* C7 (as the specification states it): on an authenticated connection the server
\* sends whole frames and whole prediction lines in turn, frame first, and does not
\* close the connection between a frame and its line.
C7_FrameThenLine ==
  \A c \in 1..Len(conns) :
    conns[c].authed =>
      LET tx == conns[c].tx
      IN /\ \A k \in 1..Len(tx) :
              IF k % 2 = 1 THEN WholeFrame(tx[k]) ELSE WholeLine(tx[k])
         /\ (Len(tx) % 2 = 1) => conns[c].status = "open"

\* C7 (amended): on an authenticated connection the server sends frames and prediction
\* lines in turn, frame first, each whole; only the last thing sent may be cut short,
\* and then the connection is closed; a frame without its line is the last thing sent,
\* and then the server is about to infer on it or the connection is closed.
C7_FrameThenLineOrClose ==
  \A c \in 1..Len(conns) :
    conns[c].authed =>
      LET tx == conns[c].tx
      IN \A k \in 1..Len(tx) :
           /\ IF k % 2 = 1
              THEN \/ WholeFrame(tx[k])
                   \/ /\ tx[k].kind = "partial"
                      /\ tx[k].data.frame \in CameraFrames
                      /\ tx[k].n < 10294
              ELSE \/ WholeLine(tx[k])
                   \/ /\ tx[k].kind = "partial"
                      /\ tx[k].data.text \in PredictionLines
                      /\ tx[k].n < Len(tx[k].data.text)
           /\ tx[k].kind = "partial" => (k = Len(tx) /\ conns[c].status = "closed")
           /\ (k = Len(tx) /\ tx[k].kind = "frame") =>
                \/ conns[c].status = "closed"
                \/ cur = c /\ srv_pc = "infer" /\ conns[c].status = "open"

\* a connection was closed after a frame, a prediction line and a second frame
C7_Witness ==
  \E c \in 1..Len(conns) :
    /\ conns[c].authed
    /\ conns[c].status = "closed"
    /\ Len(conns[c].tx) = 3
    /\ WholeFrame(conns[c].tx[1])
    /\ WholeLine(conns[c].tx[2])
    /\ WholeFrame(conns[c].tx[3])

\* C8 (as the specification states it): a connection whose request did not give the
\* configured user name and password is closed with nothing sent on it, and the
\* server goes on to accept the next connection.
C8_RejectedClosedSilently ==
  \A c \in 1..Len(conns) :
    (conns[c].status # "pending" /\ ~conns[c].authed) =>
      /\ conns[c].status = "closed"
      /\ conns[c].tx = <<>>
      /\ srv_pc # "halted"

(***************************************************************************)
(* sobel_edge_detection(input_image, output_image, offset): the 32x32      *)
(* image at input_image[offset:], its edges written into output_image.     *)
(***************************************************************************)
Gx == <<-1, 0, 1, -2, 0, 2, -1, 0, 1>>
Gy == <<-1, -2, -1, 0, 0, 0, 1, 2, 1>>
width == 32
height == 32

\* input_image[pixel_index]
Item(input_image, pixel_index) ==
  IF pixel_index < Len(input_image)
  THEN Return(At(input_image, pixel_index))
  ELSE Raise("IndexError", "index out of range")

\* magnitude = math.sqrt(sum_x**2 + sum_y**2); 0 if magnitude < 255 else 255.
\* The square root of a whole number is below 255 exactly when the number is below
\* 255 * 255 (the root of 65025 is 255 exactly, that of 65024 is 254.998...).
SobelEdge_Manhattan(sum_x, sum_y) ==
  LET abs(v) == IF v < 0 THEN -v ELSE v
  IN IF abs(sum_x) + abs(sum_y) < 255 THEN 0 ELSE 255

SobelEdge(sum_x, sum_y) ==
  IF sum_x * sum_x + sum_y * sum_y < 255 * 255 THEN 0 ELSE 255

\* the body of the interior loop for (x, y): the nine reads in the order of the ky, kx
\* loops, the first that fails ending the call; then the store of the edge value
SobelPixel(input_image, output_len, offset, x, y) ==
  LET reads == [n \in 1..9 |->
                  LET ky == ((n - 1) \div 3) - 1
                      kx == ((n - 1) % 3) - 1
                  IN Item(input_image, offset + (y + ky) * width + (x + kx))]
      failed == {n \in 1..9 : reads[n].exc # ""}
      first == CHOOSE n \in failed : \A m \in failed : n <= m
      sum_x[n \in 0..9] == IF n = 0 THEN 0 ELSE sum_x[n - 1] + reads[n].val * Gx[n]
      sum_y[n \in 0..9] == IF n = 0 THEN 0 ELSE sum_y[n - 1] + reads[n].val * Gy[n]
  IN IF failed # {} THEN reads[first]
     ELSE IF y * width + x >= output_len
          THEN Raise("IndexError", "index out of range")
          ELSE Return(SobelEdge(sum_x[9], sum_y[9]))

IsBorder(x, y) == x = 0 \/ y = 0 \/ x = width - 1 \/ y = height - 1

\* what the call leaves in output_image, or the exception that ended it
sobel_edge_detection(input_image, output_image, offset) ==
  LET output_len == Len(output_image)
      count == (height - 2) * (width - 2)
      \* interior[n]: iteration n of the first pair of loops, y outer, x inner
      interior == AsSeq([n \in 1..count |->
                    SobelPixel(input_image, output_len, offset,
                               1 + ((n - 1) % (width - 2)),
                               1 + ((n - 1) \div (width - 2)))], count)
      failed == {n \in 1..count : interior[n].exc # ""}
      first == CHOOSE n \in failed : \A m \in failed : n <= m
  IN IF failed # {} THEN interior[first]
     ELSE IF height * width > output_len
          THEN Raise("IndexError", "index out of range")
          ELSE Return(AsSeq([i \in 1..output_len |->
                 LET x == (i - 1) % width
                     y == (i - 1) \div width
                 IN IF y >= height THEN output_image[i]
                    ELSE IF IsBorder(x, y) THEN 0
                    ELSE interior[(y - 1) * (width - 2) + x].val], output_len))

\* 32x32 images handed to sobel_edge_detection: as pixel data alone, and behind the
\* 1078 bytes of a header and palette
SobelPatterns ==
  {Uniform(v) : v \in {0, 128, 255}}
    \cup {Block(1, 2, 63, 0), Block(1, 2, 64, 0), Block(1, 2, 150, 0),
          Block(0, 0, 200, 50), Block(10, 10, 255, 0)}
    \cup {Hashed(seed) : seed \in 0..(NumSeeds - 1)}

PixelData(pat) ==
  AsSeq([i \in 1..(height * width) |->
           PatternPixel(pat, (i - 1) \div width, (i - 1) % width)], height * width)

SobelInputs ==
  {PixelData(pat) : pat \in SobelPatterns}
    \cup {PySlice(SourceBmp("gray", Uniform(0)), 0, old_pixel_data_offset) \o PixelData(pat) :
            pat \in SobelPatterns}

\* output_image as handed in: zeroed, holding earlier content, one byte short
SobelOutputs ==
  {bytearray(height * width),
   AsSeq([i \in 1..(height * width) |-> 77], height * width),
   bytearray(height * width - 1)}

SobelOffsets == {0, old_pixel_data_offset}

SobelInit ==
  /\ bmp_data_mv \in SobelInputs
  /\ LibIdle
  /\ NetIdle

\* the call record of a sobel_edge_detection call: the output array as handed in, and
\* the offset
SobelCall(output_image, offset) ==
  [fn |-> "sobel_edge_detection", output_image |-> output_image, offset |-> offset]
    @@ NoCall

CallSobel ==
  /\ call.fn = "none"
  /\ \E output_image \in SobelOutputs, offset \in SobelOffsets :
       /\ call' = SobelCall(output_image, offset)
       /\ ret' = sobel_edge_detection(bmp_data_mv, output_image, offset)
  /\ UNCHANGED <<bmp_data_mv, netvars>>

SobelNext == CallSobel

SobelSpec == SobelInit /\ [][SobelNext]_vars

(***************************************************************************)
(* Further properties of the library (Spec)                                *)
(***************************************************************************)
\* the source byte the nearest sample takes for destination pixel (x, y)
Sampled(b, x, y) == At(b, 1078 + 96 * (95 - 3 * y) + 3 * x)

C13_TwoLevels ==
  (Reduced("resize_96x96_to_32x32_quantized") /\ call.depth = 2) =>
    /\ ret.exc = ""
    /\ \A x \in 0..31, y \in 0..31 :
         TargetPixel(ret.val, x, y) = IF Sampled(bmp_data_mv, x, y) < 128 THEN 64 ELSE 192

\* a source with sampled bytes on both sides of 128 has been quantized with depth 2
C13_Witness ==
  /\ Reduced("resize_96x96_to_32x32_quantized")
  /\ call.depth = 2
  /\ \E x \in 0..31, y \in 0..31 :
       Sampled(bmp_data_mv, x, y) < 128 /\ TargetPixel(ret.val, x, y) = 64
  /\ \E x \in 0..31, y \in 0..31 :
       Sampled(bmp_data_mv, x, y) >= 128 /\ TargetPixel(ret.val, x, y) = 192

\* C14 (as the specification states it): for every depth (below 2 taken as 256) the
\* quantizing transform returns, and each pixel it stored is
\* (p div rangeSize) * rangeSize + rangeSize div 2 for the sampled byte p, with
\* rangeSize = 256 div depth not 0 and the stored value within 0..255.
C14_QuantizeInRange ==
  Reduced("resize_96x96_to_32x32_quantized") =>
    LET depth == IF call.depth < 2 THEN 256 ELSE call.depth
        rangeSize == 256 \div depth
    IN /\ rangeSize # 0
       /\ ret.exc = ""
       /\ \A x \in 0..31, y \in 0..31 :
            /\ TargetPixel(ret.val, x, y) \in 0..255
            /\ TargetPixel(ret.val, x, y) =
                 (Sampled(bmp_data_mv, x, y) \div rangeSize) * rangeSize + rangeSize \div 2

(***************************************************************************)
(* Properties of sobel_edge_detection (SobelSpec)                          *)
(***************************************************************************)
\* pixel (x, y) of the image the call was given
InputPixel(x, y) == At(bmp_data_mv, call.offset + 32 * y + x)

\* the 3x3 Sobel sums at (x, y)
SobelGx(x, y) ==
  (InputPixel(x + 1, y - 1) + 2 * InputPixel(x + 1, y) + InputPixel(x + 1, y + 1))
    - (InputPixel(x - 1, y - 1) + 2 * InputPixel(x - 1, y) + InputPixel(x - 1, y + 1))
SobelGy(x, y) ==
  (InputPixel(x - 1, y + 1) + 2 * InputPixel(x, y + 1) + InputPixel(x + 1, y + 1))
    - (InputPixel(x - 1, y - 1) + 2 * InputPixel(x, y - 1) + InputPixel(x + 1, y - 1))

SobelReturned == call.fn = "sobel_edge_detection" /\ ret.exc = ""

\* C12: when sobel_edge_detection returns, whatever output_image held before, each of
\* its 1024 pixels is 0 on the border and, inside, 255 exactly when gx^2 + gy^2 >=
\* 255^2; an input of one value gives 1024 zeros.
C12_SobelOutput ==
  SobelReturned =>
    /\ Len(ret.val) = 1024
    /\ \A x \in 0..31, y \in 0..31 :
         At(ret.val, 32 * y + x) =
           IF x \in {0, 31} \/ y \in {0, 31} THEN 0
           ELSE IF SobelGx(x, y) * SobelGx(x, y) + SobelGy(x, y) * SobelGy(x, y)
                     >= 255 * 255
                THEN 255 ELSE 0
    /\ (\A x \in 0..31, y \in 0..31 : InputPixel(x, y) = InputPixel(0, 0)) =>
         \A i \in 0..1023 : At(ret.val, i) = 0

\* the call returned on an output array that held 77 everywhere: the border is zeroed,
\* one interior pixel is an edge, and one with sums 150 and 150 is not
C12_Witness ==
  /\ SobelReturned
  /\ At(call.output_image, 0) = 77
  /\ At(ret.val, 0) = 0
  /\ \E x \in 1..30, y \in 1..30 : At(ret.val, 32 * y + x) = 255
  /\ \E x \in 1..30, y \in 1..30 :
       /\ SobelGx(x, y) * SobelGx(x, y) = 150 * 150
       /\ SobelGy(x, y) * SobelGy(x, y) = 150 * 150
       /\ At(ret.val, 32 * y + x) = 0

(***************************************************************************)
(* Property of the client on a closed connection (NetFairSpec)             *)
(***************************************************************************)
\* C15 (as the specification states it): once recv() has returned an empty segment on
\* the connection the server closed, the client eventually reaches its cleanup code.
C15_ClientLeaves ==
  (client_pc = "incomplete" /\ conns[client_conn].status = "closed")
    ~> (client_pc = "done")

====
